---- MODULE Spec2Model ----
(***************************************************************************)
(* A model of the instruction-NER driver scripts of Solution_2/model:      *)
(*   train_instruct.py      (SavePeftModelCallback, train, __main__)       *)
(*   inference_instruct.py  (batch, __main__)                              *)
(*   nerel_reader.py        (the NEREL reader functions)                   *)
(* Text is modelled as a sequence of symbols (a symbol is a character or   *)
(* an atomic piece of text that holds no "/"), Python lists as sequences.  *)
(***************************************************************************)
EXTENDS Integers, Sequences, FiniteSets, TLC

\* ------------------------------------------------------------------ bounds
\* longest list handed to batch(), and most instructions in a dataset file
MaxLen == 3
\* largest --batch_size / n
MaxBatchSize == 2
\* largest --max_instances other than -1
MaxInstances == 2
\* optimizer steps the Trainer runs before trainer.train() returns
MaxSteps == 10

\* ---------------------------------------------------------- Python pieces
Min(a, b) == IF a <= b THEN a ELSE b

RECURSIVE PyRange(_, _, _)
\* range(start, stop, step) for step >= 1, as the list of its values
PyRange(start, stop, step) ==
    IF start >= stop THEN <<>>
    ELSE <<start>> \o PyRange(start + step, stop, step)

\* s[lo:hi] for 0 <= lo, 0 <= hi (0-based, hi exclusive, both clipped)
PySlice(s, lo, hi) == SubSeq(s, Min(lo, Len(s)) + 1, Min(hi, Len(s)))

\* s[:k], where a negative k counts from the end
PySliceTo(s, k) ==
    IF k >= 0 THEN PySlice(s, 0, k)
    ELSE IF Len(s) + k <= 0 THEN <<>> ELSE PySlice(s, 0, Len(s) + k)

RECURSIVE Concatenate(_)
\* np.concatenate(list of lists) for a non-empty outer list
Concatenate(ls) ==
    IF ls = <<>> THEN <<>> ELSE Head(ls) \o Concatenate(Tail(ls))

\* needle in hay, for texts
IsSubstr(needle, hay) ==
    \E i \in 0..(Len(hay) - Len(needle)) :
        SubSeq(hay, i + 1, i + Len(needle)) = needle

DigitChar(d) == <<"0", "1", "2", "3", "4", "5", "6", "7", "8", "9">>[d + 1]

RECURSIVE Str(_)
\* f"{n}" for n >= 0: the decimal digits of n
Str(n) == IF n < 10 THEN <<DigitChar(n)>>
          ELSE Str(n \div 10) \o <<DigitChar(n % 10)>>

\* os.path.join(a, b) on POSIX
PathJoin(a, b) ==
    IF b # <<>> /\ b[1] = "/" THEN b
    ELSE IF a = <<>> \/ a[Len(a)] = "/" THEN a \o b
    ELSE a \o <<"/">> \o b

\* ------------------------------------------------- inference_instruct.batch
batch_off_by_one(iterable, n) ==
    LET l == Len(iterable)
        r == PyRange(0, l, n)
    IN  [k \in 1..Len(r) |-> PySlice(iterable, r[k], Min(r[k] + n, l - 1))]

batch(iterable, n) ==
    LET l == Len(iterable)
        r == PyRange(0, l, n)
    IN  [k \in 1..Len(r) |-> PySlice(iterable, r[k], Min(r[k] + n, l))]

\* ------------------------------------------------------------ instructions
\* The i-th instruction record of split `split` of dataset `d`.
Instruction(d, split, i) ==
    [id |-> <<"id", d, split, i>>,
     source |-> <<"source", d, split, i>>,
     target |-> <<"target", d, split, i>>,
     raw_entities |-> <<"raw_entities", d, split, i>>]

Instructions(d, split, n) == [i \in 1..n |-> Instruction(d, split, i)]

\* what a reader does with max_instances when it honours it
Limit(data, max_instances) ==
    IF max_instances # -1 THEN PySliceTo(data, max_instances) ELSE data

TRAIN_FILE == "utils/nerel/train_data.jsonl"
VAL_FILE == "utils/nerel/val_data.jsonl"
TEST_FILE == "utils/nerel/test_data.jsonl"
NerelFiles == {TRAIN_FILE, VAL_FILE, TEST_FILE}

SplitOfFile(f) == IF f = TRAIN_FILE THEN "train"
                  ELSE IF f = VAL_FILE THEN "validation" ELSE "test"

\* the content of the three NEREL files when each holds n instructions
NerelFileSystem(n) == [f \in NerelFiles |-> Instructions("nerel", SplitOfFile(f), n)]

\* ---------------------------------------------------------- nerel_reader.py
\* Variant: the reader honours max_instances (the file does not).
create_train_test_instruct_datasets_limited(fs, data_path, max_instances, text_n_splits, short_form_output, test_size, random_seed) ==
    <<Limit(fs[TRAIN_FILE], max_instances), Limit(fs[VAL_FILE], max_instances)>>

\* nerel_reader.create_train_test_instruct_datasets over the file system fs
create_train_test_instruct_datasets(fs, data_path, max_instances, text_n_splits, short_form_output, test_size, random_seed) ==
    <<fs[TRAIN_FILE], fs[VAL_FILE]>>

\* nerel_reader.create_instruct_dataset over the file system fs
create_instruct_dataset(fs, data_path, max_instances, text_n_splits, short_form_output) ==
    fs[TEST_FILE]

\* ------------------------------------------- the readers of the other corpora
\* (utils/rudrec, utils/nerel_bio, utils/conll2003, utils/multiconer2023);
\* n is the number of instructions the corpus split holds.
LastSymbol(path) == path[Len(path)]

\* test_size is in tenths (3 stands for 0.3)
rudrec_create_train_test_instruct_datasets(n, data_path, max_instances, test_size, random_seed) ==
    LET m == Len(Limit(Instructions("rudrec", "all", n), max_instances))
        n_test == (m * test_size + 9) \div 10
    IN  <<Instructions("rudrec", "train", m - n_test),
          Instructions("rudrec", "test", n_test)>>

nerel_bio_create_instruct_dataset(n, data_path, max_instances, text_n_splits) ==
    Limit(Instructions("nerel_bio", LastSymbol(data_path), n), max_instances)

conll_create_instruct_dataset(n, split, max_instances) ==
    Limit(Instructions("conll2003", split, n), max_instances)

multiconer_create_instruct_dataset(n, split, shuffle, max_instances, coarse_level_tagset) ==
    Limit(Instructions("multiconer2023", split, n), max_instances)

\* the ENTITY_TYPES constant of a dataset's utils module
EntityTypesOf(d) == <<"ENTITY_TYPES", d>>
COARSE_ENTITY_TYPES == <<"COARSE_ENTITY_TYPES", "multiconer2023">>

\* metric.extract_classes and the tokenizer/model calls, as functions of
\* their inputs: generate returns one sequence per input, in input order.
extract_classes(string_output, entity_types) == <<"extracted", string_output, entity_types>>
generate(input_batch) == [k \in 1..Len(input_batch) |-> <<"sequence", input_batch[k]>>]
decode(s) == <<"decoded", s>>

\* -------------------------------------------------------------------- state
DatasetNames == {"nerel", "rudrec", "nerel_bio", "conll2003", "multiconer2023"}
OtherNames == {"wikiann"}

VARIABLES
    script,           \* which program runs
    pc,               \* its position
    arguments,        \* the parsed command line
    corpus_len,       \* instructions per corpus split on disk
    files,            \* the NEREL json files
    bound_names,      \* the module-level names bound so far
    branches_run,     \* the dataset branches executed, in order
    train_dataset, test_dataset, ENTITY_TYPES,
    \* inference_instruct.py
    target_list, instruction_ids, sources, extracted_list, generated_texts,
    batch_idx,        \* batches of `sources` processed
    generate_calls,   \* model.generate calls made
    written,          \* the tables written to prediction_path, in order
    \* train_instruct.py
    config, model, model_type, trainer, training_args, trainer_state, trainer_control,
    train_entered,    \* train() has been called
    trained,          \* trainer.train() has returned
    saved,            \* save_pretrained calls: [step, path, model]
    on_save_calls,    \* on_save calls: what went in and what came out
    pushes,           \* push_to_hub calls: [what, repo_id, after_train]
    \* harnesses for batch() and the NEREL reader
    b_iterable, b_n, b_slices, calls

dataVars == <<corpus_len, files, bound_names, branches_run, train_dataset, test_dataset, ENTITY_TYPES>>
inferVars == <<target_list, instruction_ids, sources, extracted_list, generated_texts,
               batch_idx, generate_calls, written>>
trainVars == <<config, model, model_type, trainer, training_args, trainer_state, trainer_control,
               train_entered, trained, saved, on_save_calls, pushes>>
harnessVars == <<b_iterable, b_n, b_slices, calls>>
vars == <<script, pc, arguments, dataVars, inferVars, trainVars, harnessVars>>

\* ------------------------------------------------------------- initial state
\* argparse defaults of the two scripts
DefaultArguments ==
    [dataset_name |-> "rudrec", data_path |-> <<"data">>, max_instances |-> -1,
     text_n_splits |-> -1, coarse_tagset_multiconer |-> FALSE, batch_size |-> 4,
     output_dir |-> <<"models", "/">>, test_size |-> 3, random_seed |-> 42,
     config_file |-> <<"c", "/", "l", "l", "a", "m", "a", "_", "7", "b">>,
     model_type |-> "llama", push_to_hub |-> FALSE, hf_name_postfix |-> ""]

DefaultConfig == [load_in_8bit |-> "absent", is_adapter |-> FALSE, save_steps |-> 5]
NoModel == [base |-> "none", load_in_8bit |-> FALSE, kbit_prepared |-> FALSE, adapter |-> "none"]
NoTrainer == [constructed |-> FALSE, model |-> NoModel, callbacks |-> <<>>]
NoTrainingArguments == [output_dir |-> <<>>, save_steps |-> 0]

ConfigFiles == {<<"c", "/", "l", "l", "a", "m", "a", "2", ".", "j">>,
                <<"c", "/", "l", "l", "a", "m", "a", "_", "7", "b">>}
OutputDirs == {<<"models", "/">>, <<>>, <<"/", "srv", "/", "run">>}
SaveStepsChoices == {4, 5}

InitRest ==
    /\ files = NerelFileSystem(corpus_len)
    /\ bound_names = {}
    /\ branches_run = <<>>
    /\ train_dataset = <<>>
    /\ test_dataset = <<>>
    /\ ENTITY_TYPES = <<>>
    /\ target_list = <<>>
    /\ instruction_ids = <<>>
    /\ sources = <<>>
    /\ extracted_list = <<>>
    /\ generated_texts = <<>>
    /\ batch_idx = 0
    /\ generate_calls = 0
    /\ written = <<>>
    /\ model = NoModel
    /\ model_type = arguments.model_type
    /\ trainer = NoTrainer
    /\ training_args = NoTrainingArguments
    /\ trainer_state = [global_step |-> 0]
    /\ trainer_control = [should_save |-> FALSE, should_training_stop |-> FALSE]
    /\ train_entered = FALSE
    /\ trained = FALSE
    /\ saved = <<>>
    /\ on_save_calls = <<>>
    /\ pushes = <<>>
    /\ b_slices = <<>>
    /\ calls = <<>>

InitInference ==
    /\ script = "inference_instruct"
    /\ pc = "i_setup"
    /\ \E d \in DatasetNames \cup OtherNames, mi \in {-1} \cup 0..MaxInstances,
          bs \in 1..MaxBatchSize, coarse \in BOOLEAN :
          arguments = [DefaultArguments EXCEPT !.dataset_name = d, !.max_instances = mi,
                          !.batch_size = bs, !.coarse_tagset_multiconer = coarse]
    /\ corpus_len \in 0..MaxLen
    /\ config = DefaultConfig
    /\ b_iterable = <<>>
    /\ b_n = 1
    /\ InitRest

InitTrain ==
    /\ script = "train_instruct"
    /\ pc = "t_select"
    /\ \E d \in DatasetNames \cup OtherNames, mi \in {-1, 1}, od \in OutputDirs,
          cf \in ConfigFiles, mt \in {"llama", "mistral"}, push \in BOOLEAN,
          postfix \in {"", "-v2"} :
          arguments = [DefaultArguments EXCEPT !.dataset_name = d, !.max_instances = mi,
                          !.output_dir = od, !.config_file = cf, !.model_type = mt,
                          !.push_to_hub = push, !.hf_name_postfix = postfix]
    /\ corpus_len = MaxLen
    /\ \E l8 \in {"absent", "true", "false"}, ia \in BOOLEAN, ss \in SaveStepsChoices :
          config = [load_in_8bit |-> l8, is_adapter |-> ia, save_steps |-> ss]
    /\ b_iterable = <<>>
    /\ b_n = 1
    /\ InitRest

RECURSIVE SeqsUpTo(_, _)
\* the lists over S of length at most k
SeqsUpTo(S, k) ==
    IF k = 0 THEN {<<>>}
    ELSE LET shorter == SeqsUpTo(S, k - 1)
         IN  shorter \cup {Append(q, x) : q \in shorter, x \in S}

InitBatch ==
    /\ script = "batch"
    /\ pc = "b_call"
    /\ arguments = DefaultArguments
    /\ corpus_len = 0
    /\ config = DefaultConfig
    /\ b_iterable \in SeqsUpTo({"a", "b"}, MaxLen)
    /\ b_n \in 1..MaxBatchSize
    /\ InitRest

InitReader ==
    /\ script = "nerel_reader"
    /\ pc = "r_call"
    /\ arguments = DefaultArguments
    /\ corpus_len \in 0..MaxLen
    /\ config = DefaultConfig
    /\ b_iterable = <<>>
    /\ b_n = 1
    /\ InitRest

Init == InitInference \/ InitTrain \/ InitBatch \/ InitReader

\* ------------------------------------------------- inference_instruct.py
\* lines 38-73: the model, the adapter and the tokenizer are loaded
InferenceSetup ==
    /\ script = "inference_instruct" /\ pc = "i_setup"
    /\ model' = [base |-> "model_name", load_in_8bit |-> TRUE, kbit_prepared |-> FALSE,
                 adapter |-> "PeftModel.from_pretrained"]
    /\ pc' = "i_select"
    /\ UNCHANGED <<script, arguments, dataVars, inferVars, harnessVars>>
    /\ UNCHANGED <<config, model_type, trainer, training_args, trainer_state, trainer_control,
                   train_entered, trained, saved, on_save_calls, pushes>>

\* lines 88-90: the rudrec branch keeps the test half and truncates it itself
RudrecTestDataset(args, len) ==
    LET split == rudrec_create_train_test_instruct_datasets(
                     len, args.data_path, -1, DefaultArguments.test_size,
                     DefaultArguments.random_seed)
        test == split[2]
    IN  IF args.max_instances # -1 /\ args.max_instances < Len(test)
        THEN PySliceTo(test, args.max_instances)
        ELSE test

\* Variant: the nerel_bio branch calls the NEREL reader (a copied branch).
InferenceTestDataset_copy_paste(args, fs, len) ==
    CASE args.dataset_name \in {"nerel", "nerel_bio"} ->
           create_instruct_dataset(fs, PathJoin(args.data_path, <<"test">>),
                                   args.max_instances, args.text_n_splits, TRUE)
      [] args.dataset_name = "rudrec" -> RudrecTestDataset(args, len)
      [] args.dataset_name = "conll2003" ->
           conll_create_instruct_dataset(len, "test", args.max_instances)
      [] args.dataset_name = "multiconer2023" ->
           multiconer_create_instruct_dataset(len, "test", TRUE, args.max_instances,
                                              args.coarse_tagset_multiconer)

\* lines 75-117: the test dataset each branch of the if/elif chain assigns
InferenceTestDataset(args, fs, len) ==
    CASE args.dataset_name = "nerel" ->
           create_instruct_dataset(fs, PathJoin(args.data_path, <<"test">>),
                                   args.max_instances, args.text_n_splits, TRUE)
      [] args.dataset_name = "rudrec" -> RudrecTestDataset(args, len)
      [] args.dataset_name = "nerel_bio" ->
           nerel_bio_create_instruct_dataset(len, PathJoin(args.data_path, <<"test">>),
                                             args.max_instances, args.text_n_splits)
      [] args.dataset_name = "conll2003" ->
           conll_create_instruct_dataset(len, "test", args.max_instances)
      [] args.dataset_name = "multiconer2023" ->
           multiconer_create_instruct_dataset(len, "test", TRUE, args.max_instances,
                                              args.coarse_tagset_multiconer)

\* lines 77, 86, 93, 102, 107-110: the ENTITY_TYPES each branch imports
InferenceEntityTypes(args) ==
    IF args.dataset_name = "multiconer2023" /\ args.coarse_tagset_multiconer
    THEN COARSE_ENTITY_TYPES
    ELSE EntityTypesOf(args.dataset_name)

\* lines 75-117: the if/elif chain; no else branch
InferenceSelectDataset ==
    /\ script = "inference_instruct" /\ pc = "i_select"
    /\ IF arguments.dataset_name \in DatasetNames
       THEN /\ test_dataset' = InferenceTestDataset(arguments, files, corpus_len)
            /\ ENTITY_TYPES' = InferenceEntityTypes(arguments)
            /\ bound_names' = bound_names \cup {"test_dataset", "ENTITY_TYPES"}
            /\ branches_run' = Append(branches_run, arguments.dataset_name)
       ELSE UNCHANGED <<test_dataset, ENTITY_TYPES, bound_names, branches_run>>
    /\ pc' = "i_collect"
    /\ UNCHANGED <<script, arguments, corpus_len, files, train_dataset,
                   inferVars, trainVars, harnessVars>>

\* lines 119-132: the three lists are filled and cut into batches; reading
\* the unbound name test_dataset raises NameError
InferenceCollect ==
    /\ script = "inference_instruct" /\ pc = "i_collect"
    /\ IF "test_dataset" \notin bound_names
       THEN /\ pc' = "raised"
            /\ UNCHANGED <<target_list, instruction_ids, sources>>
       ELSE LET n == arguments.batch_size
                batched_sources ==
                    batch([i \in 1..Len(test_dataset) |-> test_dataset[i].source], n)
            IN  /\ target_list' =
                     batch([i \in 1..Len(test_dataset) |-> test_dataset[i].raw_entities], n)
                /\ instruction_ids' =
                     batch([i \in 1..Len(test_dataset) |-> test_dataset[i].id], n)
                /\ sources' = batched_sources
                /\ pc' = IF batched_sources = <<>> THEN "i_write" ELSE "i_generate"
    /\ UNCHANGED <<script, arguments, dataVars, harnessVars, trainVars>>
    /\ UNCHANGED <<extracted_list, generated_texts, batch_idx, generate_calls, written>>

\* Variant: the extraction is appended once per batch, after the inner loop.
Extractions_last_only(texts, entity_types) ==
    IF texts = <<>> THEN <<>>
    ELSE <<extract_classes(texts[Len(texts)], entity_types)>>

\* lines 144-147: one decoded text and one extraction per generated sequence
DecodedTexts(sequences) == [k \in 1..Len(sequences) |-> decode(sequences[k])]
Extractions(texts, entity_types) ==
    [k \in 1..Len(texts) |-> extract_classes(texts[k], entity_types)]

\* lines 134-147: one turn of the loop over the batches
InferenceGenerate ==
    /\ script = "inference_instruct" /\ pc = "i_generate"
    /\ batch_idx < Len(sources)
    /\ LET source == sources[batch_idx + 1]
           texts == DecodedTexts(generate(source))
       IN  /\ extracted_list' = extracted_list \o Extractions(texts, ENTITY_TYPES)
           /\ generated_texts' = generated_texts \o texts
    /\ generate_calls' = generate_calls + 1
    /\ batch_idx' = batch_idx + 1
    /\ pc' = IF batch_idx + 1 = Len(sources) THEN "i_write" ELSE "i_generate"
    /\ UNCHANGED <<script, arguments, dataVars, harnessVars, trainVars>>
    /\ UNCHANGED <<target_list, instruction_ids, sources, written>>

\* lines 149-154: the DataFrame of the four columns
PredictionTable(ids, extracted, targets, texts) ==
    [i \in 1..Len(ids) |->
        [id |-> ids[i], extracted |-> extracted[i], target |-> targets[i],
         generated_text |-> texts[i]]]

\* Variant: the rows done so far are written when a batch raises.
InferenceRaise_partial_write ==
    /\ script = "inference_instruct" /\ pc = "i_generate"
    /\ batch_idx < Len(sources)
    /\ pc' = "raised"
    /\ written' = Append(written,
          PredictionTable(SubSeq(Concatenate(instruction_ids), 1, Len(generated_texts)),
                          extracted_list,
                          SubSeq(Concatenate(target_list), 1, Len(generated_texts)),
                          generated_texts))
    /\ UNCHANGED <<script, arguments, dataVars, harnessVars, trainVars>>
    /\ UNCHANGED <<target_list, instruction_ids, sources, extracted_list, generated_texts,
                   batch_idx, generate_calls>>

\* lines 135-146: the tokenizer, generate or extract_classes raises; nothing
\* catches it
InferenceRaise ==
    /\ script = "inference_instruct" /\ pc = "i_generate"
    /\ batch_idx < Len(sources)
    /\ pc' = "raised"
    /\ UNCHANGED <<script, arguments, dataVars, inferVars, harnessVars, trainVars>>

\* lines 149-154: np.concatenate of an empty list raises ValueError, and so
\* does a DataFrame of columns of different lengths
InferenceWrite ==
    /\ script = "inference_instruct" /\ pc = "i_write"
    /\ IF instruction_ids = <<>> \/ target_list = <<>>
       THEN pc' = "raised" /\ UNCHANGED written
       ELSE LET ids == Concatenate(instruction_ids)
                targets == Concatenate(target_list)
            IN  IF Len(ids) = Len(extracted_list) /\ Len(ids) = Len(targets)
                   /\ Len(ids) = Len(generated_texts)
                THEN /\ written' = Append(written,
                            PredictionTable(ids, extracted_list, targets, generated_texts))
                     /\ pc' = "done"
                ELSE pc' = "raised" /\ UNCHANGED written
    /\ UNCHANGED <<script, arguments, dataVars, harnessVars, trainVars>>
    /\ UNCHANGED <<target_list, instruction_ids, sources, extracted_list, generated_texts,
                   batch_idx, generate_calls>>

\* ----------------------------------------------------- train_instruct.py
PREFIX_CHECKPOINT_DIR == "checkpoint"

\* Variants of on_save with a plausible slip each.
on_save_without_step(args, state, control, kwargs_model) ==
    [peft_model_path |-> PathJoin(PathJoin(args.output_dir, <<PREFIX_CHECKPOINT_DIR>>),
                                  <<"adapter_model">>),
     saved_model |-> kwargs_model, args |-> args, state |-> state, return |-> control]

\* SavePeftModelCallback.on_save: the path saved to, the model saved, the
\* arguments and state as it leaves them, and what it returns
on_save(args, state, control, kwargs_model) ==
    LET checkpoint_folder ==
            PathJoin(args.output_dir,
                     <<PREFIX_CHECKPOINT_DIR, "-">> \o Str(state.global_step))
        peft_model_path == PathJoin(checkpoint_folder, <<"adapter_model">>)
    IN  [peft_model_path |-> peft_model_path, saved_model |-> kwargs_model,
         args |-> args, state |-> state, return |-> control]

\* lines 170-217: the datasets each branch of the if/elif chain assigns
TrainDatasets(args, fs, len) ==
    CASE args.dataset_name = "nerel" ->
           create_train_test_instruct_datasets(fs, args.data_path, args.max_instances,
               -1, TRUE, DefaultArguments.test_size, DefaultArguments.random_seed)
      [] args.dataset_name = "rudrec" ->
           rudrec_create_train_test_instruct_datasets(len, args.data_path,
               args.max_instances, args.test_size, args.random_seed)
      [] args.dataset_name = "nerel_bio" ->
           <<nerel_bio_create_instruct_dataset(len, PathJoin(args.data_path, <<"train">>),
                                               args.max_instances, args.text_n_splits),
             nerel_bio_create_instruct_dataset(len, PathJoin(args.data_path, <<"dev">>),
                                               args.max_instances, args.text_n_splits)>>
      [] args.dataset_name = "conll2003" ->
           <<conll_create_instruct_dataset(len, "train", args.max_instances),
             conll_create_instruct_dataset(len, "validation", args.max_instances)>>
      [] args.dataset_name = "multiconer2023" ->
           <<multiconer_create_instruct_dataset(len, "train", FALSE, args.max_instances,
                                                args.coarse_tagset_multiconer),
             multiconer_create_instruct_dataset(len, "validation", FALSE,
                                                args.max_instances,
                                                args.coarse_tagset_multiconer)>>

\* lines 170-217: the if/elif chain; no else branch
TrainSelectDataset ==
    /\ script = "train_instruct" /\ pc = "t_select"
    /\ IF arguments.dataset_name \in DatasetNames
       THEN LET datasets == TrainDatasets(arguments, files, corpus_len)
            IN  /\ train_dataset' = datasets[1]
                /\ test_dataset' = datasets[2]
                /\ bound_names' = bound_names \cup {"train_dataset", "test_dataset"}
                /\ branches_run' = Append(branches_run, arguments.dataset_name)
       ELSE UNCHANGED <<train_dataset, test_dataset, bound_names, branches_run>>
    /\ pc' = "t_call"
    /\ UNCHANGED <<script, arguments, corpus_len, files, ENTITY_TYPES,
                   inferVars, trainVars, harnessVars>>

\* lines 219-230: the arguments of train(...) are evaluated, which raises
\* NameError for an unbound train_dataset, and then train() is entered
TrainCall ==
    /\ script = "train_instruct" /\ pc = "t_call"
    /\ IF {"train_dataset", "test_dataset"} \subseteq bound_names
       THEN train_entered' = TRUE /\ pc' = "t_load"
       ELSE train_entered' = train_entered /\ pc' = "raised"
    /\ UNCHANGED <<script, arguments, dataVars, inferVars, harnessVars>>
    /\ UNCHANGED <<config, model, model_type, trainer, training_args, trainer_state,
                   trainer_control, trained, saved, on_save_calls, pushes>>

\* line 82: bool(config.get("load_in_8bit", True))
ConfigLoadIn8bit(cfg) == IF cfg.load_in_8bit = "absent" THEN TRUE ELSE cfg.load_in_8bit = "true"

\* lines 82-110: the model each branch builds
LoadModel(cfg) ==
    IF ConfigLoadIn8bit(cfg)
    THEN IF cfg.is_adapter
         THEN [base |-> "peft_config.base_model_name_or_path", load_in_8bit |-> TRUE,
               kbit_prepared |-> TRUE, adapter |-> "PeftModel.from_pretrained"]
         ELSE [base |-> "model_name", load_in_8bit |-> TRUE,
               kbit_prepared |-> TRUE, adapter |-> "get_peft_model"]
    ELSE [base |-> "model_name", load_in_8bit |-> FALSE,
          kbit_prepared |-> FALSE, adapter |-> "none"]

\* lines 48-119
TrainLoadModel ==
    /\ script = "train_instruct" /\ pc = "t_load"
    /\ model' = LoadModel(config)
    /\ pc' = "t_trainer"
    /\ UNCHANGED <<script, arguments, dataVars, inferVars, harnessVars>>
    /\ UNCHANGED <<config, model_type, trainer, training_args, trainer_state,
                   trainer_control, train_entered, trained, saved, on_save_calls, pushes>>

\* lines 121-141: TrainingArguments and the Trainer
TrainMakeTrainer ==
    /\ script = "train_instruct" /\ pc = "t_trainer"
    /\ training_args' = [output_dir |-> arguments.output_dir, save_steps |-> config.save_steps]
    /\ trainer' = [constructed |-> TRUE, model |-> model,
                   callbacks |-> <<"SavePeftModelCallback">>]
    /\ pc' = "t_print"
    /\ UNCHANGED <<script, arguments, dataVars, inferVars, harnessVars>>
    /\ UNCHANGED <<config, model, model_type, trainer_state, trainer_control,
                   train_entered, trained, saved, on_save_calls, pushes>>

\* lines 143-144: print_trainable_parameters is a method of the adapter
\* wrapper only; on a bare model the attribute lookup raises AttributeError
TrainPrintTrainableParameters ==
    /\ script = "train_instruct" /\ pc = "t_print"
    /\ pc' = IF model.adapter = "none" THEN "raised" ELSE "t_training"
    /\ UNCHANGED <<script, arguments, dataVars, inferVars, harnessVars, trainVars>>

\* line 145, inside trainer.train(): one optimizer step; every save_steps
\* steps the Trainer asks for a checkpoint
TrainStep ==
    /\ script = "train_instruct" /\ pc = "t_training"
    /\ ~trainer_control.should_save
    /\ trainer_state.global_step < MaxSteps
    /\ trainer_state' = [trainer_state EXCEPT !.global_step = @ + 1]
    /\ trainer_control' = [trainer_control EXCEPT !.should_save =
                              (trainer_state.global_step + 1) % training_args.save_steps = 0]
    /\ UNCHANGED <<script, pc, arguments, dataVars, inferVars, harnessVars>>
    /\ UNCHANGED <<config, model, model_type, trainer, training_args,
                   train_entered, trained, saved, on_save_calls, pushes>>

\* line 145, inside trainer.train(): the callback handler clears should_save,
\* calls on_save of the callback of line 139 with the Trainer's model, and
\* keeps what it returns as the control
TrainSave ==
    /\ script = "train_instruct" /\ pc = "t_training"
    /\ trainer_control.should_save
    /\ LET control_in == [trainer_control EXCEPT !.should_save = FALSE]
           r == on_save(training_args, trainer_state, control_in, trainer.model)
       IN  /\ saved' = Append(saved, [step |-> trainer_state.global_step,
                                      path |-> r.peft_model_path, model |-> r.saved_model])
           /\ on_save_calls' = Append(on_save_calls,
                  [args_in |-> training_args, state_in |-> trainer_state,
                   control_in |-> control_in, args_out |-> r.args, state_out |-> r.state,
                   return |-> r.return, path |-> r.peft_model_path])
           /\ training_args' = r.args
           /\ trainer_state' = r.state
           /\ trainer_control' = r.return
    /\ UNCHANGED <<script, pc, arguments, dataVars, inferVars, harnessVars>>
    /\ UNCHANGED <<config, model, model_type, trainer, train_entered, trained, pushes>>

\* line 145: trainer.train() returns once the last step is done
TrainReturn ==
    /\ script = "train_instruct" /\ pc = "t_training"
    /\ ~trainer_control.should_save
    /\ trainer_state.global_step = MaxSteps
    /\ trained' = TRUE
    /\ pc' = "t_after_train"
    /\ UNCHANGED <<script, arguments, dataVars, inferVars, harnessVars>>
    /\ UNCHANGED <<config, model, model_type, trainer, training_args, trainer_state,
                   trainer_control, train_entered, saved, on_save_calls, pushes>>

\* lines 86-109, 145, 149, 150: a library call raises; nothing catches it
TrainRaise ==
    /\ script = "train_instruct"
    /\ pc \in {"t_load", "t_training", "t_push_model", "t_push_tokenizer"}
    /\ pc' = "raised"
    /\ UNCHANGED <<script, arguments, dataVars, inferVars, harnessVars, trainVars>>

\* f"poteminr/{model_type}-{dataset_name}{hf_name_postfix}", piece by piece
RepoId(mt, dataset_name, hf_name_postfix) ==
    <<"poteminr/", mt, "-", dataset_name, hf_name_postfix>>

\* Variant: the test is for 'llama' instead of 'llama2'.
ModelTypeAfterTrain_any_llama(mt, config_file) ==
    IF IsSubstr(<<"l", "l", "a", "m", "a">>, config_file) THEN "llama2" ELSE mt

\* lines 146-147
ModelTypeAfterTrain(mt, config_file) ==
    IF IsSubstr(<<"l", "l", "a", "m", "a", "2">>, config_file) THEN "llama2" ELSE mt

\* lines 146-148
TrainAfterTrain ==
    /\ script = "train_instruct" /\ pc = "t_after_train"
    /\ model_type' = ModelTypeAfterTrain(model_type, arguments.config_file)
    /\ pc' = IF arguments.push_to_hub THEN "t_push_model" ELSE "done"
    /\ UNCHANGED <<script, arguments, dataVars, inferVars, harnessVars>>
    /\ UNCHANGED <<config, model, trainer, training_args, trainer_state, trainer_control,
                   train_entered, trained, saved, on_save_calls, pushes>>

\* line 149
TrainPushModel ==
    /\ script = "train_instruct" /\ pc = "t_push_model"
    /\ pushes' = Append(pushes,
          [what |-> "model", after_train |-> trained,
           repo_id |-> RepoId(model_type, arguments.dataset_name, arguments.hf_name_postfix)])
    /\ pc' = "t_push_tokenizer"
    /\ UNCHANGED <<script, arguments, dataVars, inferVars, harnessVars>>
    /\ UNCHANGED <<config, model, model_type, trainer, training_args, trainer_state,
                   trainer_control, train_entered, trained, saved, on_save_calls>>

\* line 150
TrainPushTokenizer ==
    /\ script = "train_instruct" /\ pc = "t_push_tokenizer"
    /\ pushes' = Append(pushes,
          [what |-> "tokenizer", after_train |-> trained,
           repo_id |-> RepoId(model_type, arguments.dataset_name, arguments.hf_name_postfix)])
    /\ pc' = "done"
    /\ UNCHANGED <<script, arguments, dataVars, inferVars, harnessVars>>
    /\ UNCHANGED <<config, model, model_type, trainer, training_args, trainer_state,
                   trainer_control, train_entered, trained, saved, on_save_calls>>

\* ------------------------------------------------------------ harnesses
\* batch() applied to a list and a batch size, consumed with list(...)
BatchCall ==
    /\ script = "batch" /\ pc = "b_call"
    /\ b_slices' = batch(b_iterable, b_n)
    /\ pc' = "b_done"
    /\ UNCHANGED <<script, arguments, dataVars, inferVars, trainVars, b_iterable, b_n, calls>>

DataPaths == {<<"data">>, <<"elsewhere">>}
ReaderMaxInstances == {-1, 1}
TextNSplits == {-1, 2}
TestSizes == {3, 5}
RandomSeeds == {42, 7}
NextReaderPc == IF pc = "r_call" THEN "r_call2" ELSE "r_done"

\* a call of nerel_reader.create_train_test_instruct_datasets
ReaderCallTrainTest ==
    /\ script = "nerel_reader" /\ pc \in {"r_call", "r_call2"}
    /\ \E data_path \in DataPaths, max_instances \in ReaderMaxInstances,
          text_n_splits \in TextNSplits, short_form_output \in BOOLEAN,
          test_size \in TestSizes, random_seed \in RandomSeeds :
          calls' = Append(calls,
              [fn |-> "create_train_test_instruct_datasets",
               args |-> <<data_path, max_instances, text_n_splits, short_form_output,
                          test_size, random_seed>>,
               result |-> create_train_test_instruct_datasets(files, data_path,
                              max_instances, text_n_splits, short_form_output,
                              test_size, random_seed)])
    /\ pc' = NextReaderPc
    /\ UNCHANGED <<script, arguments, dataVars, inferVars, trainVars,
                   b_iterable, b_n, b_slices>>

\* a call of nerel_reader.create_instruct_dataset
ReaderCallTest ==
    /\ script = "nerel_reader" /\ pc \in {"r_call", "r_call2"}
    /\ \E data_path \in DataPaths, max_instances \in ReaderMaxInstances,
          text_n_splits \in TextNSplits, short_form_output \in BOOLEAN :
          calls' = Append(calls,
              [fn |-> "create_instruct_dataset",
               args |-> <<data_path, max_instances, text_n_splits, short_form_output>>,
               result |-> create_instruct_dataset(files, data_path, max_instances,
                              text_n_splits, short_form_output)])
    /\ pc' = NextReaderPc
    /\ UNCHANGED <<script, arguments, dataVars, inferVars, trainVars,
                   b_iterable, b_n, b_slices>>

\* ------------------------------------------------------------ specification
Next ==
    \/ InferenceSetup
    \/ InferenceSelectDataset
    \/ InferenceCollect
    \/ InferenceGenerate
    \/ InferenceRaise
    \/ InferenceWrite
    \/ TrainSelectDataset
    \/ TrainCall
    \/ TrainLoadModel
    \/ TrainMakeTrainer
    \/ TrainPrintTrainableParameters
    \/ TrainStep
    \/ TrainSave
    \/ TrainReturn
    \/ TrainRaise
    \/ TrainAfterTrain
    \/ TrainPushModel
    \/ TrainPushTokenizer
    \/ BatchCall
    \/ ReaderCallTrainTest
    \/ ReaderCallTest

Spec == Init /\ [][Next]_vars

\* ================================================================== claims
InTrain == script = "train_instruct"
InInference == script = "inference_instruct"
Llama2InConfigFile == IsSubstr(<<"l", "l", "a", "m", "a", "2">>, arguments.config_file)

RECURSIVE SumLen(_, _)
\* the total length of the first k lists of ls
SumLen(ls, k) == IF k = 0 THEN 0 ELSE Len(ls[k]) + SumLen(ls, k - 1)

\* C1: whatever load_in_8bit and is_adapter are, the model handed to the
\* Trainer has a low-rank adapter attached to the loaded base model, either
\* loaded from model_name or built fresh from the lora section.
C1_AdapterAlwaysAttached ==
    (InTrain /\ trainer.constructed) =>
        /\ trainer.model.base # "none"
        /\ trainer.model.adapter \in {"PeftModel.from_pretrained", "get_peft_model"}

\* C2: after each processed batch extracted_list and generated_texts have the
\* same length, the number of sources in the batches processed so far; and the
\* table written at the end has one row per instruction of the test dataset,
\* row i holding instruction i's id and raw_entities with the text generated
\* for instruction i's source and the entities extracted from that text.
C2_TableAlignedWithDataset ==
    InInference =>
        /\ Len(extracted_list) = Len(generated_texts)
        /\ Len(generated_texts) = SumLen(sources, batch_idx)
        /\ pc = "done" =>
             /\ Len(written) = 1
             /\ Len(written[1]) = Len(test_dataset)
             /\ \A i \in 1..Len(test_dataset) :
                  LET text == decode(<<"sequence", test_dataset[i].source>>)
                  IN  written[1][i] =
                        [id |-> test_dataset[i].id,
                         target |-> test_dataset[i].raw_entities,
                         generated_text |-> text,
                         extracted |-> extract_classes(text, ENTITY_TYPES)]

\* C2's case: a dataset that fills more than one batch, the last one partly,
\* has been generated for and written.
C2_Witness ==
    /\ InInference /\ pc = "done"
    /\ Len(test_dataset) = 3 /\ arguments.batch_size = 2 /\ Len(written) = 1

\* C3: with --max_instances other than -1 at most max_instances instructions
\* are generated for and written, for every supported dataset name; with -1
\* the whole test dataset is used.
C3_MaxInstancesHonoured ==
    (InInference /\ arguments.dataset_name \in DatasetNames) =>
        IF arguments.max_instances # -1
        THEN /\ Len(generated_texts) <= arguments.max_instances
             /\ \A t \in 1..Len(written) : Len(written[t]) <= arguments.max_instances
        ELSE "test_dataset" \in bound_names =>
                Len(test_dataset) =
                    Len(InferenceTestDataset([arguments EXCEPT !.max_instances = -1],
                                             files, corpus_len))

\* the evaluation split each training branch reads
EvalSplits == {"validation", "dev", "test"}

AllFrom(dataset, name, splits) ==
    \A i \in 1..Len(dataset) : dataset[i].id[2] = name /\ dataset[i].id[3] \in splits

\* C4: the dataset is selected by dataset_name alone. For each of the five
\* names exactly one branch runs and assigns the dataset(s) of that dataset's
\* reader (train and evaluation sets for training; the test set and the
\* matching ENTITY_TYPES for inference). For any other name no branch runs,
\* nothing is assigned, and neither train() nor a generate call is reached.
C4_SelectedByNameAlone ==
    /\ script \in {"train_instruct", "inference_instruct"} => Len(branches_run) <= 1
    /\ (InTrain /\ pc # "t_select") =>
         IF arguments.dataset_name \in DatasetNames
         THEN /\ branches_run = <<arguments.dataset_name>>
              /\ {"train_dataset", "test_dataset"} \subseteq bound_names
              /\ AllFrom(train_dataset, arguments.dataset_name, {"train"})
              /\ AllFrom(test_dataset, arguments.dataset_name, EvalSplits)
         ELSE /\ branches_run = <<>> /\ bound_names = {}
              /\ ~train_entered /\ ~trainer.constructed
              /\ pc \in {"t_call", "raised"}
    /\ (InInference /\ pc \notin {"i_setup", "i_select"}) =>
         IF arguments.dataset_name \in DatasetNames
         THEN /\ branches_run = <<arguments.dataset_name>>
              /\ {"test_dataset", "ENTITY_TYPES"} \subseteq bound_names
              /\ AllFrom(test_dataset, arguments.dataset_name, {"test"})
              /\ ENTITY_TYPES[2] = arguments.dataset_name
         ELSE /\ branches_run = <<>> /\ bound_names = {}
              /\ generate_calls = 0 /\ written = <<>>
              /\ pc \in {"i_collect", "raised"}

\* C4's case: an unsupported name has run past the if/elif chain and stopped.
C4_Witness ==
    /\ InTrain /\ arguments.dataset_name \notin DatasetNames /\ pc = "raised"

\* C5: batch(iterable, n) yields exactly ceil(l/n) consecutive slices; all but
\* the last have length n, the last has length 1..n, none is empty, and their
\* concatenation in order is the input list.
C5_BatchPartitions ==
    (script = "batch" /\ pc = "b_done") =>
        LET l == Len(b_iterable)
            k == Len(b_slices)
        IN  /\ k * b_n >= l
            /\ (k - 1) * b_n < l \/ (k = 0 /\ l = 0)
            /\ \A i \in 1..(k - 1) : Len(b_slices[i]) = b_n
            /\ k >= 1 => Len(b_slices[k]) \in 1..b_n
            /\ \A i \in 1..k : b_slices[i] # <<>>
            /\ Concatenate(b_slices) = b_iterable

\* C5's case: a list whose length is no multiple of n has been batched.
C5_Witness ==
    /\ script = "batch" /\ pc = "b_done"
    /\ Len(b_iterable) = 3 /\ b_n = 2 /\ Len(b_slices) = 2

\* C6: the prediction file is written at most once, and only after every
\* batch has been generated and decoded; once an exception has propagated no
\* further step runs and no prediction file, not even a partial one, exists;
\* a run that ends normally has written exactly once.
C6_AllOrNothing ==
    InInference =>
        /\ Len(written) <= 1
        /\ written # <<>> =>
             /\ pc = "done" /\ batch_idx = Len(sources) /\ generate_calls = Len(sources)
             /\ Len(written[1]) = SumLen(sources, Len(sources))
        /\ pc = "done" => Len(written) = 1
        /\ pc = "raised" => (written = <<>> /\ ~ENABLED Next)

\* C6's case: the second batch raised after the first had been processed.
C6_Witness ==
    /\ InInference /\ pc = "raised"
    /\ batch_idx = 1 /\ Len(sources) = 2 /\ generated_texts # <<>>

\* C7: nothing is pushed unless push_to_hub is set and trainer.train() has
\* returned; the model is pushed first and the tokenizer second, both to
\* poteminr/<model_type>-<dataset_name><hf_name_postfix>, where model_type is
\* 'llama2' exactly when the config file path contains 'llama2' and the
\* --model_type argument otherwise; a run that ends normally with the flag
\* set has pushed both.
C7_PushAfterTrain ==
    InTrain =>
        /\ ~arguments.push_to_hub => pushes = <<>>
        /\ ~trained => pushes = <<>>
        /\ Len(pushes) <= 2
        /\ \A i \in 1..Len(pushes) :
             /\ pushes[i].after_train
             /\ pushes[i].what = IF i = 1 THEN "model" ELSE "tokenizer"
             /\ pushes[i].repo_id =
                  <<"poteminr/",
                    IF Llama2InConfigFile THEN "llama2" ELSE arguments.model_type,
                    "-", arguments.dataset_name, arguments.hf_name_postfix>>
        /\ (pc = "done" /\ arguments.push_to_hub) => Len(pushes) = 2

\* C7's case: both pushes are done, under a model type the config path left alone.
C7_Witness ==
    /\ InTrain /\ pc = "done" /\ Len(pushes) = 2
    /\ arguments.model_type = "mistral" /\ ~Llama2InConfigFile
    /\ pushes[2].repo_id[2] = "mistral"

RECURSIVE SplitPath(_)
\* the components of a path: the runs of symbols between "/"
SplitPath(path) ==
    IF path = <<>> THEN <<>>
    ELSE IF Head(path) = "/" THEN SplitPath(Tail(path))
    ELSE LET rest == SplitPath(Tail(path))
         IN  IF Len(path) >= 2 /\ path[2] # "/"
             THEN <<<<Head(path)>> \o Head(rest)>> \o Tail(rest)
             ELSE <<<<Head(path)>>>> \o rest

IsAbsolute(path) == path # <<>> /\ path[1] = "/"

Digits == {DigitChar(d) : d \in 0..9}

\* a non-empty list of decimal digits with no leading zero, or "0" itself
IsDecimal(ds) ==
    /\ ds # <<>>
    /\ \A i \in 1..Len(ds) : ds[i] \in Digits
    /\ Len(ds) >= 2 => ds[1] # "0"

RECURSIVE DecimalValue(_)
\* the number a list of decimal digits writes
DecimalValue(ds) ==
    IF ds = <<>> THEN 0
    ELSE 10 * DecimalValue(SubSeq(ds, 1, Len(ds) - 1))
         + (CHOOSE d \in 0..9 : DigitChar(d) = ds[Len(ds)])

\* C8: every on_save at global step s saves the Trainer's adapter model to
\* <output_dir>/checkpoint-<s>/adapter_model, returns the TrainerControl it
\* was given, and leaves the training arguments and the trainer state as they
\* were; saves at distinct steps go to distinct paths.
C8_OnSaveFrame ==
    InTrain =>
        /\ Len(saved) = Len(on_save_calls)
        /\ \A i \in 1..Len(on_save_calls) :
             LET c == on_save_calls[i]
                 parts == SplitPath(c.path)
                 k == Len(SplitPath(arguments.output_dir))
             IN  /\ c.return = c.control_in
                 /\ c.args_out = c.args_in
                 /\ c.state_out = c.state_in
                 /\ saved[i].path = c.path
                 /\ saved[i].step = c.state_in.global_step
                 /\ saved[i].model = model /\ model.adapter # "none"
                 /\ IsAbsolute(c.path) = IsAbsolute(arguments.output_dir)
                 /\ Len(parts) = k + 2
                 /\ SubSeq(parts, 1, k) = SplitPath(arguments.output_dir)
                 /\ Len(parts[k + 1]) >= 3
                 /\ SubSeq(parts[k + 1], 1, 2) = <<"checkpoint", "-">>
                 /\ IsDecimal(SubSeq(parts[k + 1], 3, Len(parts[k + 1])))
                 /\ DecimalValue(SubSeq(parts[k + 1], 3, Len(parts[k + 1])))
                      = c.state_in.global_step
                 /\ parts[k + 2] = <<"adapter_model">>
        /\ \A i, j \in 1..Len(saved) :
             saved[i].step # saved[j].step => saved[i].path # saved[j].path

\* C8's case: two saves at different steps, the second at a two-digit step.
C8_Witness ==
    /\ InTrain /\ Len(saved) = 2
    /\ saved[1].step < 10 /\ saved[2].step >= 10
    /\ arguments.output_dir # <<>>

====
